---- MODULE Spec2Model ----
(***************************************************************************)
(* Tracking form of silverlake.tracking (app.py): the payload searchers,   *)
(* the proof-of-delivery builder, the two Maxoptra gateway calls and the   *)
(* request orchestration of _build_context.                                *)
(*                                                                         *)
(* A Python str is a sequence of one-character strings, so that strip,     *)
(* lower, re.sub and startswith are computed character by character.       *)
(* None is a sequence no str can equal.                                    *)
(***************************************************************************)
EXTENDS Integers, Sequences, FiniteSets, TLC

None == <<"<None>">>

\* Python truthiness of an Optional[str]: neither None nor "".
Truthy(s) == s # None /\ s # <<>>

UpperLetters ==
    <<"A","B","C","D","E","F","G","H","I","J","K","L","M","N","O","P","Q","R","S","T","U","V","W","X","Y","Z">>

LowerLetters ==
    <<"a","b","c","d","e","f","g","h","i","j","k","l","m","n","o","p","q","r","s","t","u","v","w","x","y","z">>

Digits == {"0","1","2","3","4","5","6","7","8","9"}

Range(s) == {s[i] : i \in 1..Len(s)}

Whitespace == {" ", "\t", "\n", "\r"}

LowerChar(c) ==
    IF c \in Range(UpperLetters)
    THEN LowerLetters[CHOOSE i \in 1..Len(UpperLetters) : UpperLetters[i] = c]
    ELSE c

UpperChar(c) ==
    IF c \in Range(LowerLetters)
    THEN UpperLetters[CHOOSE i \in 1..Len(LowerLetters) : LowerLetters[i] = c]
    ELSE c

\* str.lower()
Lower(s) == [i \in 1..Len(s) |-> LowerChar(s[i])]

\* str.startswith(prefix)
StartsWith(s, prefix) ==
    /\ Len(s) >= Len(prefix)
    /\ SubSeq(s, 1, Len(prefix)) = prefix

RECURSIVE LStrip(_)
LStrip(s) ==
    IF s # <<>> /\ Head(s) \in Whitespace THEN LStrip(Tail(s)) ELSE s

RECURSIVE RStrip(_)
RStrip(s) ==
    IF s # <<>> /\ s[Len(s)] \in Whitespace
    THEN RStrip(SubSeq(s, 1, Len(s) - 1))
    ELSE s

\* str.strip()
Strip(s) == RStrip(LStrip(s))

TRACKING_BASE_URL ==
    <<"h","t","t","p","s",":","/","/","o","r","d","e","r","s","t","r","a","c","k",".","c","o","m","/">>

IsAlnumChar(c) == c \in Range(UpperLetters) \cup Range(LowerLetters) \cup Digits

\* TRACKING_PATTERN.fullmatch(s) for ^[A-Za-z0-9]+$
\* mutant: re.match without the closing anchor, so only a prefix is tested
TRACKING_PATTERN_PrefixOnly(s) == s # <<>> /\ IsAlnumChar(s[1])

TRACKING_PATTERN(s) == s # <<>> /\ \A i \in 1..Len(s) : IsAlnumChar(s[i])

TRACKING_NUMBER_KEYS ==
    { <<"t","r","a","c","k","i","n","g","N","u","m","b","e","r">>,
      <<"t","r","a","c","k","i","n","g","_","n","u","m","b","e","r">>,
      <<"t","r","a","c","k","i","n","g","C","o","d","e">>,
      <<"t","r","a","c","k","i","n","g","_","c","o","d","e">>,
      <<"t","r","a","c","k","i","n","g">>,
      <<"c","o","n","s","i","g","n","m","e","n","t","N","u","m","b","e","r">>,
      <<"c","o","n","s","i","g","n","m","e","n","t","_","n","u","m","b","e","r">>,
      <<"t","r","a","c","k","i","n","g","I","d">>,
      <<"t","r","a","c","k","i","n","g","_","i","d">> }

\* re.sub(r"[^a-z0-9]", "", key.lower())
_normalise_key(key) ==
    SelectSeq(Lower(key), LAMBDA c : c \in Range(LowerLetters) \cup Digits)

(***************************************************************************)
(* An API payload (decoded JSON) is a record [t, v]:                       *)
(*   t = "str"  : v the characters of the string                           *)
(*   t = "num"  : v the characters of str(value) of an int or float        *)
(*   t = "bool" : v the characters of str(value) of a JSON true or false    *)
(*   t = "null" : v = <<>>                                                 *)
(*   t = "dict" : v the entries <<key, value>> in iteration order          *)
(*   t = "list" : v the items in order                                     *)
(***************************************************************************)
Str(s) == [t |-> "str", v |-> s]
Num(s) == [t |-> "num", v |-> s]
Bool(s) == [t |-> "bool", v |-> s]
Null == [t |-> "null", v |-> <<>>]
Dict(entries) == [t |-> "dict", v |-> entries]
List(items) == [t |-> "list", v |-> items]

RECURSIVE _find_string_value(_, _)
RECURSIVE FindInEntries(_, _, _)
RECURSIVE FindInItems(_, _, _)

\* mutant: returns what the first entry gave, without going on to the next
FindInEntries_ReturnsEarly(entries, i, target_keys) ==
    IF i > Len(entries) THEN None
    ELSE LET key == entries[i][1]
             value == entries[i][2]
             own == IF _normalise_key(key) \in target_keys /\ value.t = "str"
                    THEN Strip(value.v) ELSE None
         IN IF Truthy(own) THEN own
            ELSE _find_string_value(value, target_keys)

\* the loop "for key, value in payload.items()" from entry i on
FindInEntries(entries, i, target_keys) ==
    IF i > Len(entries) THEN None
    ELSE LET key == entries[i][1]
             value == entries[i][2]
             own == IF _normalise_key(key) \in target_keys /\ value.t = "str"
                    THEN Strip(value.v) ELSE None
         IN IF Truthy(own) THEN own
            ELSE LET candidate == _find_string_value(value, target_keys)
                 IN IF Truthy(candidate) THEN candidate
                    ELSE FindInEntries(entries, i + 1, target_keys)

\* the loop "for item in payload" from item i on
FindInItems(items, i, target_keys) ==
    IF i > Len(items) THEN None
    ELSE LET candidate == _find_string_value(items[i], target_keys)
         IN IF Truthy(candidate) THEN candidate
            ELSE FindInItems(items, i + 1, target_keys)

_find_string_value(payload, target_keys) ==
    IF payload.t = "dict" THEN FindInEntries(payload.v, 1, target_keys)
    ELSE IF payload.t = "list" THEN FindInItems(payload.v, 1, target_keys)
    ELSE None

RECURSIVE _extract_tracking_number(_)
RECURSIVE ExtractInEntries(_, _)
RECURSIVE ExtractInItems(_, _)

ExtractInEntries(entries, i) ==
    IF i > Len(entries) THEN None
    ELSE LET key == entries[i][1]
             value == entries[i][2]
             own == IF key \in TRACKING_NUMBER_KEYS /\ value.t = "str"
                    THEN Strip(value.v) ELSE None
         IN IF Truthy(own) THEN own
            ELSE LET candidate == _extract_tracking_number(value)
                 IN IF Truthy(candidate) THEN candidate
                    ELSE ExtractInEntries(entries, i + 1)

ExtractInItems(items, i) ==
    IF i > Len(items) THEN None
    ELSE LET candidate == _extract_tracking_number(items[i])
         IN IF Truthy(candidate) THEN candidate
            ELSE ExtractInItems(items, i + 1)

_extract_tracking_number(payload) ==
    IF payload.t = "dict" THEN ExtractInEntries(payload.v, 1)
    ELSE IF payload.t = "list" THEN ExtractInItems(payload.v, 1)
    ELSE None

IsLabelSeparator(c) == c \in {"_", "-"}

RECURSIVE DropSeparators(_)
DropSeparators(s) ==
    IF s # <<>> /\ IsLabelSeparator(Head(s)) THEN DropSeparators(Tail(s)) ELSE s

\* re.sub(r"[_\-]+", " ", label): every run of _ and - becomes one space
RECURSIVE ReplaceSeparatorRuns(_)
ReplaceSeparatorRuns(s) ==
    IF s = <<>> THEN <<>>
    ELSE IF IsLabelSeparator(Head(s))
         THEN <<" ">> \o ReplaceSeparatorRuns(DropSeparators(s))
         ELSE <<Head(s)>> \o ReplaceSeparatorRuns(Tail(s))

_format_label(label) ==
    LET cleaned == Strip(ReplaceSeparatorRuns(label))
    IN IF cleaned # <<>>
       THEN <<UpperChar(Head(cleaned))>> \o Tail(cleaned)
       ELSE label

DataScheme ==
    <<"d","a","t","a",":">>

PngDataUriPrefix ==
    <<"d","a","t","a",":","i","m","a","g","e","/","p","n","g",";","b","a","s","e","6","4",",">>

Base64Alphabet ==
    Range(UpperLetters) \cup Range(LowerLetters) \cup Digits \cup {"+", "/", "="}

\* len(compact) > 100
MinBase64Length == 100

_coerce_data_uri(value) ==
    IF StartsWith(value, DataScheme) THEN value
    ELSE LET compact == SelectSeq(value, LAMBDA c : c \notin Whitespace)
         IN IF compact = <<>> THEN None
            ELSE IF (\A i \in 1..Len(compact) : compact[i] \in Base64Alphabet)
                    /\ Len(compact) > MinBase64Length
                 THEN PngDataUriPrefix \o compact
                 ELSE None

SignatureUrlKeys ==
    { <<"s","i","g","n","a","t","u","r","e","u","r","l">>,
      <<"s","i","g","n","a","t","u","r","e","i","m","a","g","e","u","r","l">>,
      <<"s","i","g","n","a","t","u","r","e","l","i","n","k">>,
      <<"s","i","g","n","a","t","u","r","e","d","o","w","n","l","o","a","d","u","r","l">> }

SignatureImageKeys ==
    { <<"s","i","g","n","a","t","u","r","e","i","m","a","g","e">>,
      <<"s","i","g","n","a","t","u","r","e">>,
      <<"s","i","g","n","a","t","u","r","e","d","a","t","a">>,
      <<"s","i","g","n","a","t","u","r","e","p","a","y","l","o","a","d">>,
      <<"p","r","o","o","f","i","m","a","g","e">> }

SignedByKeys ==
    { <<"s","i","g","n","e","d","b","y">>,
      <<"s","i","g","n","a","t","o","r","y">>,
      <<"r","e","c","i","p","i","e","n","t">>,
      <<"r","e","c","i","p","i","e","n","t","n","a","m","e">>,
      <<"r","e","c","e","i","v","e","r">>,
      <<"r","e","c","e","i","v","e","r","n","a","m","e">> }

SignedAtKeys ==
    { <<"s","i","g","n","e","d","a","t">>,
      <<"c","o","m","p","l","e","t","e","d","a","t">>,
      <<"c","o","m","p","l","e","t","e","d","t","i","m","e">>,
      <<"t","i","m","e","s","t","a","m","p">>,
      <<"d","e","l","i","v","e","r","e","d","a","t">>,
      <<"d","e","l","i","v","e","r","e","d","o","n">>,
      <<"d","a","t","e","t","i","m","e">> }

StatusKeys ==
    { <<"s","t","a","t","u","s">>,
      <<"p","o","d","s","t","a","t","u","s">>,
      <<"d","e","l","i","v","e","r","y","s","t","a","t","u","s">> }

SkippedDetailKeys ==
    { <<"s","i","g","n","a","t","u","r","e","u","r","l">>,
      <<"s","i","g","n","a","t","u","r","e","i","m","a","g","e">>,
      <<"s","i","g","n","a","t","u","r","e">>,
      <<"s","i","g","n","a","t","u","r","e","d","a","t","a">>,
      <<"s","i","g","n","a","t","u","r","e","p","a","y","l","o","a","d">>,
      <<"p","r","o","o","f","i","m","a","g","e">>,
      <<"s","i","g","n","a","t","u","r","e","l","i","n","k">> }

HttpScheme ==
    <<"h","t","t","p",":","/","/">>

HttpsScheme ==
    <<"h","t","t","p","s",":","/","/">>

PodKey ==
    <<"p","o","d">>

SignedByLabel ==
    <<"S","i","g","n","e","d"," ","b","y">>

SignedAtLabel ==
    <<"S","i","g","n","e","d"," ","a","t">>

StatusLabel ==
    <<"S","t","a","t","u","s">>

\* dict.get(key): the value under key, None (here Null) when absent
DictGet(payload, key) ==
    IF \E i \in 1..Len(payload.v) : payload.v[i][1] = key
    THEN payload.v[CHOOSE i \in 1..Len(payload.v) : payload.v[i][1] = key][2]
    ELSE Null

\* payload.get("pod") if isinstance(payload.get("pod"), dict) else payload
PodBody(payload) ==
    IF DictGet(payload, PodKey).t = "dict" THEN DictGet(payload, PodKey) ELSE payload

\* signature_url.lower().startswith(("http://", "https://"))
IsHttpUrl(s) ==
    StartsWith(Lower(s), HttpScheme) \/ StartsWith(Lower(s), HttpsScheme)

\* mutant: line 114 missing, the found reference is kept whatever it is
SignatureUrl_NotCleared(found) == found

\* signature_url after the branch of lines 110-114
SignatureUrl(found) ==
    IF Truthy(found) /\ IsHttpUrl(found) THEN found ELSE None

\* signature_image after the branch of lines 110-127
SignatureImage(pod_body, found) ==
    IF Truthy(found) /\ IsHttpUrl(found) THEN None
    ELSE LET inline == IF Truthy(found) THEN _coerce_data_uri(found) ELSE None
         IN IF Truthy(inline) THEN inline
            ELSE LET signature_candidate ==
                         _find_string_value(pod_body, SignatureImageKeys)
                 IN IF Truthy(signature_candidate)
                    THEN IF Truthy(_coerce_data_uri(signature_candidate))
                         THEN _coerce_data_uri(signature_candidate)
                         ELSE signature_candidate
                    ELSE inline

\* the loop of lines 164-170
FixedDetails(signed_by, signed_at, status) ==
    (IF Truthy(signed_by) THEN << <<SignedByLabel, signed_by>> >> ELSE <<>>)
    \o (IF Truthy(signed_at) THEN << <<SignedAtLabel, signed_at>> >> ELSE <<>>)
    \o (IF Truthy(status) THEN << <<StatusLabel, status>> >> ELSE <<>>)

\* isinstance(value, (str, int, float)); a JSON true/false is a Python int
IsDetailScalar(value) == value.t \in {"str", "num", "bool"}

\* the loop of lines 173-189 from entry i on
RECURSIVE CatchAllDetails(_, _, _, _)
CatchAllDetails(entries, i, seen_keys, detail_pairs) ==
    IF i > Len(entries) THEN detail_pairs
    ELSE LET key == entries[i][1]
             value == entries[i][2]
             formatted_label == _format_label(key)
         IN IF _normalise_key(key) \in SkippedDetailKeys
            THEN CatchAllDetails(entries, i + 1, seen_keys, detail_pairs)
            ELSE IF IsDetailScalar(value) /\ formatted_label \notin seen_keys
                 THEN CatchAllDetails(entries, i + 1,
                                      seen_keys \cup {formatted_label},
                                      Append(detail_pairs, <<formatted_label, value.v>>))
                 ELSE CatchAllDetails(entries, i + 1, seen_keys, detail_pairs)

\* the builder's None
NoPod ==
    [isNone |-> TRUE, signature_url |-> None, signature_image |-> None,
     details |-> <<>>, raw |-> Null]

_build_proof_of_delivery_context(payload) ==
    IF payload.t # "dict" THEN NoPod
    ELSE LET pod_body == PodBody(payload)
             found == _find_string_value(pod_body, SignatureUrlKeys)
             signature_url == SignatureUrl(found)
             signature_image == SignatureImage(pod_body, found)
             fixed == FixedDetails(_find_string_value(pod_body, SignedByKeys),
                                   _find_string_value(pod_body, SignedAtKeys),
                                   _find_string_value(pod_body, StatusKeys))
             detail_pairs == CatchAllDetails(pod_body.v, 1, {}, fixed)
         IN IF detail_pairs = <<>> /\ ~Truthy(signature_url) /\ ~Truthy(signature_image)
            THEN NoPod
            ELSE [isNone |-> FALSE, signature_url |-> signature_url,
                  signature_image |-> signature_image,
                  details |-> detail_pairs, raw |-> payload]

(***************************************************************************)
(* The gateway.  A response is what requests.get produced:                 *)
(*   kind = "exception" : a RequestException, exc its text                 *)
(*   kind = "http"      : a status code and a body; json says whether      *)
(*                        response.json() succeeds, payload what it gives  *)
(* config says whether MAXOPTRA_API_KEY and MAXOPTRA_BASE_URL are          *)
(* non-empty.  A user-facing message is a one- or two-element sequence:    *)
(* its text and, where the text is formatted, the value formatted in.      *)
(***************************************************************************)
TransportError(exc) ==
    [kind |-> "exception", exc |-> exc, status |-> 0, json |-> FALSE, payload |-> Null]

HttpResponse(status, json, payload) ==
    [kind |-> "http", exc |-> "", status |-> status, json |-> json, payload |-> payload]

NoResponse ==
    [kind |-> "none", exc |-> "", status |-> 0, json |-> FALSE, payload |-> Null]

\* mutant: only 2xx counts as ok
ResponseOk_Only2xx(status) == 200 <= status /\ status < 300

\* requests.Response.ok: raise_for_status() raises for 400 <= status < 600
ResponseOk(status) == ~(400 <= status /\ status < 600)

MsgReferenceNoKey == <<"Tracking by reference is not configured.">>
MsgReferenceNoBaseUrl ==
    <<"Tracking by reference is not configured correctly. Please set the Maxoptra base URL.">>
MsgReferenceUnreachable(exc) ==
    <<"Unable to contact the tracking service. Please try again later. (Technical detail: {exc})", exc>>
MsgReferenceNotFound == <<"No delivery was found for that reference.">>
MsgReferenceRejected(status) ==
    <<"The tracking service rejected the request (HTTP {code}). This can happen if the API key is invalid, the Maxoptra account URL is incorrect, or network access to Maxoptra is blocked. Please contact support.", ToString(status)>>
MsgReferenceUnavailable ==
    <<"The tracking service is temporarily unavailable. Please try again later.">>
MsgReferenceUnexpected == <<"Unexpected response from the tracking service.">>
MsgReferenceInvalidBody == <<"Received an invalid response from the tracking service.">>
MsgReferenceNoTrackingNumber ==
    <<"The tracking service did not return a tracking number for that reference.">>

MsgPodNoKey == <<"Proof of delivery is not available because the API key is missing.">>
MsgPodNoBaseUrl ==
    <<"Proof of delivery is not configured correctly. Please set the Maxoptra base URL.">>
MsgPodUnreachable(exc) ==
    <<"Unable to retrieve proof of delivery at this time. (Technical detail: {exc})", exc>>
MsgPodNotFound == <<"No proof of delivery was found for this order yet.">>
MsgPodRejected ==
    <<"The tracking service rejected the proof-of-delivery request. Please contact support.">>
MsgPodUnavailable == <<"The proof-of-delivery service is temporarily unavailable.">>
MsgPodUnexpected == <<"Unexpected response from the proof-of-delivery service.">>
MsgPodInvalidBody ==
    <<"Received an invalid proof-of-delivery response from the tracking service.">>
MsgPodNotAvailable ==
    <<"Proof-of-delivery information is not currently available for this order.">>

MsgTrackingFormat ==
    <<"Tracking numbers may only contain letters and numbers. Please try again.">>
MsgRetrievedInvalid ==
    <<"The retrieved tracking number appears to be invalid. Please contact support.">>
MsgNothingEntered == <<"Please enter a tracking number or order reference.">>

\* What one gateway function returns and does: the returned pair (value, error),
\* whether requests.get was called, and the app.logger.warning entries it made.
GatewayResult(value, pod, error, requested, warnings) ==
    [value |-> value, pod |-> pod, error |-> error,
     requested |-> requested, warnings |-> warnings]

_fetch_tracking_number_from_reference(config, response) ==
    IF ~config.api_key
    THEN GatewayResult(None, NoPod, MsgReferenceNoKey, FALSE, <<>>)
    ELSE IF ~config.base_url
    THEN GatewayResult(None, NoPod, MsgReferenceNoBaseUrl, FALSE, <<>>)
    ELSE IF response.kind = "exception"
    THEN GatewayResult(None, NoPod, MsgReferenceUnreachable(response.exc), TRUE,
                       <<"Error contacting Maxoptra for reference %s: %s">>)
    ELSE IF response.status = 404
    THEN GatewayResult(None, NoPod, MsgReferenceNotFound, TRUE, <<>>)
    ELSE IF response.status \in {401, 403}
    THEN GatewayResult(None, NoPod, MsgReferenceRejected(response.status), TRUE,
                       <<"Maxoptra returned %s for reference %s: %s">>)
    ELSE IF response.status >= 500
    THEN GatewayResult(None, NoPod, MsgReferenceUnavailable, TRUE,
                       <<"Maxoptra returned %s for reference %s">>)
    ELSE IF ~ResponseOk(response.status)
    THEN GatewayResult(None, NoPod, MsgReferenceUnexpected, TRUE,
                       <<"Unexpected Maxoptra status %s for reference %s: %s">>)
    ELSE IF ~response.json
    THEN GatewayResult(None, NoPod, MsgReferenceInvalidBody, TRUE, <<>>)
    ELSE LET tracking_number == _extract_tracking_number(response.payload)
         IN IF Truthy(tracking_number)
            THEN GatewayResult(tracking_number, NoPod, None, TRUE, <<>>)
            ELSE GatewayResult(None, NoPod, MsgReferenceNoTrackingNumber, TRUE, <<>>)

\* mutant: the 404 branch logs like the other status branches
_fetch_proof_of_delivery_LogsNotFound(config, response) ==
    IF ~config.api_key
    THEN GatewayResult(None, NoPod, MsgPodNoKey, FALSE, <<>>)
    ELSE IF ~config.base_url
    THEN GatewayResult(None, NoPod, MsgPodNoBaseUrl, FALSE, <<>>)
    ELSE IF response.kind = "exception"
    THEN GatewayResult(None, NoPod, MsgPodUnreachable(response.exc), TRUE,
                       <<"Error fetching proof of delivery for %s: %s">>)
    ELSE IF response.status = 404
    THEN GatewayResult(None, NoPod, MsgPodNotFound, TRUE,
                       <<"Maxoptra returned %s for proof of delivery %s">>)
    ELSE IF response.status \in {401, 403}
    THEN GatewayResult(None, NoPod, MsgPodRejected, TRUE,
                       <<"Maxoptra returned %s for proof of delivery %s: %s">>)
    ELSE IF response.status >= 500
    THEN GatewayResult(None, NoPod, MsgPodUnavailable, TRUE,
                       <<"Maxoptra returned %s for proof of delivery %s">>)
    ELSE IF ~ResponseOk(response.status)
    THEN GatewayResult(None, NoPod, MsgPodUnexpected, TRUE,
                       <<"Unexpected Maxoptra status %s for proof of delivery %s: %s">>)
    ELSE IF ~response.json
    THEN GatewayResult(None, NoPod, MsgPodInvalidBody, TRUE, <<>>)
    ELSE LET pod_context == _build_proof_of_delivery_context(response.payload)
         IN IF ~pod_context.isNone
            THEN GatewayResult(None, pod_context, None, TRUE, <<>>)
            ELSE GatewayResult(None, NoPod, MsgPodNotAvailable, TRUE, <<>>)

_fetch_proof_of_delivery(config, response) ==
    IF ~config.api_key
    THEN GatewayResult(None, NoPod, MsgPodNoKey, FALSE, <<>>)
    ELSE IF ~config.base_url
    THEN GatewayResult(None, NoPod, MsgPodNoBaseUrl, FALSE, <<>>)
    ELSE IF response.kind = "exception"
    THEN GatewayResult(None, NoPod, MsgPodUnreachable(response.exc), TRUE,
                       <<"Error fetching proof of delivery for %s: %s">>)
    ELSE IF response.status = 404
    THEN GatewayResult(None, NoPod, MsgPodNotFound, TRUE, <<>>)
    ELSE IF response.status \in {401, 403}
    THEN GatewayResult(None, NoPod, MsgPodRejected, TRUE,
                       <<"Maxoptra returned %s for proof of delivery %s: %s">>)
    ELSE IF response.status >= 500
    THEN GatewayResult(None, NoPod, MsgPodUnavailable, TRUE,
                       <<"Maxoptra returned %s for proof of delivery %s">>)
    ELSE IF ~ResponseOk(response.status)
    THEN GatewayResult(None, NoPod, MsgPodUnexpected, TRUE,
                       <<"Unexpected Maxoptra status %s for proof of delivery %s: %s">>)
    ELSE IF ~response.json
    THEN GatewayResult(None, NoPod, MsgPodInvalidBody, TRUE, <<>>)
    ELSE LET pod_context == _build_proof_of_delivery_context(response.payload)
         IN IF ~pod_context.isNone
            THEN GatewayResult(None, pod_context, None, TRUE, <<>>)
            ELSE GatewayResult(None, NoPod, MsgPodNotAvailable, TRUE, <<>>)

(***************************************************************************)
(* The request handlers.  One request runs from "idle" to "done"; it stops *)
(* at "resolve" and at "pod" while the outbound GET of that gateway call   *)
(* is awaited, and the response is the environment's choice.               *)
(***************************************************************************)
VARIABLES
    pc,          \* "idle", "resolve", "pod", "done"; "search", "build" and their results
    route,       \* the handler that took the request
    config,      \* [api_key, base_url]: whether each setting is non-empty
    submission,  \* the arguments _build_context was called with
    ctx,         \* the locals of _build_context; at "done", the returned context
    calls,       \* the gateway calls of this request, in order
    payload,     \* the payload a searcher or the builder is applied to
    found,       \* what the searcher returned
    pod_view     \* what the builder returned

vars == <<pc, route, config, submission, ctx, calls, payload, found, pod_view>>

\* longest tracking number and order reference typed into the form
MaxLen == 2

BoundedSeq(S, n) == UNION {[1..k -> S] : k \in 0..n}

TrackingChars == {"A", "7", "!", " "}
ReferenceChars == {"R", " "}

\* request.form.get(...): the field's text, or None when the field is absent
TrackingFormValues == BoundedSeq(TrackingChars, MaxLen) \cup {None}
ReferenceFormValues == BoundedSeq(ReferenceChars, MaxLen) \cup {None}

\* the <tracking_number> segment of the path: never empty
PathValues == BoundedSeq(TrackingChars, MaxLen) \ {<<>>}

Configs == [api_key : BOOLEAN, base_url : BOOLEAN]

Statuses == {200, 204, 304, 400, 401, 403, 404, 429, 500, 503}

Exceptions == {"ConnectionError", "Timeout"}

ReferencePayloads ==
    { Dict(<< <<<<"t","r","a","c","k","i","n","g","N","u","m","b","e","r">>, Str(<<"X","Y","Z","7","8","9">>)>> >>),
      Dict(<< <<<<"t","r","a","c","k","i","n","g">>, Str(<<"b","a","d","!","n","u","m","b","e","r">>)>> >>),
      Dict(<< <<<<"o","r","d","e","r">>, Dict(<< <<<<"t","r","a","c","k","i","n","g","_","i","d">>, Str(<<" ","A","B","1"," ">>)>> >>)>> >>),
      Dict(<< <<<<"T","r","a","c","k","i","n","g","N","u","m","b","e","r">>, Str(<<"X","Y","Z","7","8","9">>)>> >>),
      List(<< >>) }

ProofPayloads ==
    { Dict(<< <<<<"s","t","a","t","u","s">>, Str(<<"D","e","l","i","v","e","r","e","d">>)>> >>),
      Dict(<< <<<<"p","o","d">>, Dict(<< <<<<"s","i","g","n","a","t","u","r","e","U","r","l">>, Str(<<"h","t","t","p","s",":","/","/","s">>)>> >>)>> >>),
      Dict(<< >>),
      List(<< >>) }

ResponsesWith(payloads) ==
    {TransportError(e) : e \in Exceptions}
    \cup {HttpResponse(s, FALSE, Null) : s \in Statuses}
    \cup {HttpResponse(s, TRUE, p) : s \in {200, 304}, p \in payloads}

\* raw.strip() if raw else ""
Trimmed(raw) == IF Truthy(raw) THEN Strip(raw) ELSE <<>>

\* lines 379-386
InitialContext(raw_tracking_number, raw_order_reference) ==
    [tracking_number |-> Trimmed(raw_tracking_number),
     order_reference |-> Trimmed(raw_order_reference),
     tracking_url |-> None,
     error_message |-> None,
     reference_error_message |-> None,
     resolved_tracking_number |-> None,
     proof_of_delivery |-> NoPod,
     proof_of_delivery_error |-> None]

\* mutant: the proof-of-delivery fetch nested under the valid-number branch
BeginContext_ProofOnlyWhenValid(raw_tracking_number, raw_order_reference, submission_attempted) ==
    LET c == InitialContext(raw_tracking_number, raw_order_reference)
    IN IF ~submission_attempted THEN [ctx |-> c, pc |-> "done"]
       ELSE IF c.tracking_number # <<>>
       THEN IF TRACKING_PATTERN(c.tracking_number)
            THEN [ctx |-> [c EXCEPT !.tracking_url =
                                        TRACKING_BASE_URL \o c.tracking_number],
                  pc |-> IF c.order_reference # <<>> THEN "pod" ELSE "done"]
            ELSE [ctx |-> [c EXCEPT !.error_message = MsgTrackingFormat],
                  pc |-> "done"]
       ELSE IF c.order_reference # <<>>
       THEN [ctx |-> c, pc |-> "resolve"]
       ELSE [ctx |-> [c EXCEPT !.error_message = MsgNothingEntered], pc |-> "done"]

\* mutant: the submission_attempted test of line 388 missing
BeginContext_AlwaysAttempted(raw_tracking_number, raw_order_reference, submission_attempted) ==
    LET c == InitialContext(raw_tracking_number, raw_order_reference)
    IN IF c.tracking_number # <<>>
       THEN [ctx |-> IF TRACKING_PATTERN(c.tracking_number)
                     THEN [c EXCEPT !.tracking_url = TRACKING_BASE_URL \o c.tracking_number]
                     ELSE [c EXCEPT !.error_message = MsgTrackingFormat],
             pc |-> IF c.order_reference # <<>> THEN "pod" ELSE "done"]
       ELSE IF c.order_reference # <<>>
       THEN [ctx |-> c, pc |-> "resolve"]
       ELSE [ctx |-> [c EXCEPT !.error_message = MsgNothingEntered], pc |-> "done"]

\* lines 388-417 up to the first gateway call: the locals, and where the
\* handler goes next
BeginContext(raw_tracking_number, raw_order_reference, submission_attempted) ==
    LET c == InitialContext(raw_tracking_number, raw_order_reference)
    IN IF ~submission_attempted THEN [ctx |-> c, pc |-> "done"]
       ELSE IF c.tracking_number # <<>>
       THEN [ctx |-> IF TRACKING_PATTERN(c.tracking_number)
                     THEN [c EXCEPT !.tracking_url = TRACKING_BASE_URL \o c.tracking_number]
                     ELSE [c EXCEPT !.error_message = MsgTrackingFormat],
             pc |-> IF c.order_reference # <<>> THEN "pod" ELSE "done"]
       ELSE IF c.order_reference # <<>>
       THEN [ctx |-> c, pc |-> "resolve"]
       ELSE [ctx |-> [c EXCEPT !.error_message = MsgNothingEntered], pc |-> "done"]

\* mutant: line 412 missing, the invalid number stays in the context
AfterResolve_KeepsInvalid(c, result) ==
    IF Truthy(result.value) /\ TRACKING_PATTERN(result.value)
    THEN [c EXCEPT !.resolved_tracking_number = result.value,
                   !.reference_error_message = result.error,
                   !.tracking_number = result.value,
                   !.tracking_url = TRACKING_BASE_URL \o result.value]
    ELSE IF Truthy(result.value)
    THEN [c EXCEPT !.resolved_tracking_number = result.value,
                   !.reference_error_message = MsgRetrievedInvalid]
    ELSE [c EXCEPT !.resolved_tracking_number = result.value,
                   !.reference_error_message = result.error]

\* lines 402-412: the locals once _fetch_tracking_number_from_reference returned
AfterResolve(c, result) ==
    IF Truthy(result.value) /\ TRACKING_PATTERN(result.value)
    THEN [c EXCEPT !.resolved_tracking_number = result.value,
                   !.reference_error_message = result.error,
                   !.tracking_number = result.value,
                   !.tracking_url = TRACKING_BASE_URL \o result.value]
    ELSE IF Truthy(result.value)
    THEN [c EXCEPT !.resolved_tracking_number = None,
                   !.reference_error_message = MsgRetrievedInvalid]
    ELSE [c EXCEPT !.resolved_tracking_number = result.value,
                   !.reference_error_message = result.error]

\* mutant: the proof-of-delivery call made only after a successful resolution
NextAfterResolve_OnlyOnSuccess(result) ==
    IF Truthy(result.value) THEN "pod" ELSE "done"

\* line 413: the proof-of-delivery call follows whatever the resolution gave
NextAfterResolve(result) == "pod"

\* lines 398-400 and 413-415
AfterProof(c, result) ==
    [c EXCEPT !.proof_of_delivery = result.pod,
              !.proof_of_delivery_error = result.error]

Call(fn, response, result) ==
    [fn |-> fn, response |-> response, result |-> result]

\* a handler calls _build_context and runs it up to its first gateway call
Enter(via, raw_tracking_number, raw_order_reference, submission_attempted) ==
    LET begun == BeginContext(raw_tracking_number, raw_order_reference,
                              submission_attempted)
    IN /\ route' = via
       /\ submission' = [raw_tracking_number |-> raw_tracking_number,
                         raw_order_reference |-> raw_order_reference,
                         submission_attempted |-> submission_attempted]
       /\ ctx' = begun.ctx
       /\ pc' = begun.pc

\* GET /
IndexGet ==
    /\ pc = "idle"
    /\ Enter("GET /", None, None, FALSE)
    /\ UNCHANGED <<config, calls, payload, found, pod_view>>

\* POST /
IndexPost ==
    /\ pc = "idle"
    /\ \E t \in TrackingFormValues, r \in ReferenceFormValues :
          Enter("POST /", t, r, TRUE)
    /\ UNCHANGED <<config, calls, payload, found, pod_view>>

\* GET /<tracking_number>
TrackingFromPath ==
    /\ pc = "idle"
    /\ \E t \in PathValues : Enter("GET /<tracking_number>", t, None, TRUE)
    /\ UNCHANGED <<config, calls, payload, found, pod_view>>

\* requests.get is reached only when both settings are present (lines 225-232,
\* 299-305); then the response is the environment's choice
ResponsesFor(payloads) ==
    IF config.api_key /\ config.base_url THEN ResponsesWith(payloads) ELSE {NoResponse}

\* the call of line 402 returns
ResolveReference ==
    /\ pc = "resolve"
    /\ \E response \in ResponsesFor(ReferencePayloads) :
          LET result == _fetch_tracking_number_from_reference(config, response)
          IN /\ calls' = Append(calls, Call("resolve_reference", response, result))
             /\ ctx' = AfterResolve(ctx, result)
             /\ pc' = NextAfterResolve(result)
    /\ UNCHANGED <<route, config, submission, payload, found, pod_view>>

\* the call of line 398 or 413 returns
FetchProofOfDelivery ==
    /\ pc = "pod"
    /\ \E response \in ResponsesFor(ProofPayloads) :
          LET result == _fetch_proof_of_delivery(config, response)
          IN /\ calls' = Append(calls, Call("fetch_proof_of_delivery", response, result))
             /\ ctx' = AfterProof(ctx, result)
             /\ pc' = "done"
    /\ UNCHANGED <<route, config, submission, payload, found, pod_view>>

NoSubmission ==
    [raw_tracking_number |-> None, raw_order_reference |-> None,
     submission_attempted |-> FALSE]

Init ==
    /\ pc = "idle"
    /\ route = "none"
    /\ config \in Configs
    /\ submission = NoSubmission
    /\ ctx = InitialContext(None, None)
    /\ calls = <<>>
    /\ payload = Null
    /\ found = None
    /\ pod_view = NoPod

Next ==
    \/ IndexGet
    \/ IndexPost
    \/ TrackingFromPath
    \/ ResolveReference
    \/ FetchProofOfDelivery

Spec == Init /\ [][Next]_vars

(***************************************************************************)
(* The searchers on their own: a payload is drawn and one searcher is      *)
(* applied to it.  _find_string_value runs with the status key set of      *)
(* lines 154-158.                                                          *)
(***************************************************************************)
\* most entries of a mapping, most items of a sequence
MaxEntries == 2

\* "Status" matches the normalised status keys only, "tracking" the exact
\* tracking-number keys only, "a" neither
SearchKeys ==
    { <<"S","t","a","t","u","s">>, <<"t","r","a","c","k","i","n","g">>, <<"a">> }

SearchScalars == {Str(<<"X">>), Str(<<" ","Y"," ">>), Str(<<" ">>), Null}

SearchValues ==
    SearchScalars
    \cup {Dict(<< <<k, s>> >>) : k \in SearchKeys, s \in {Str(<<"Z">>), Str(<<" ">>)}}
    \cup {List(<< Dict(<< <<k, Str(<<"W">>)>> >>) >>) : k \in SearchKeys}
    \cup {Dict(<< <<<<"a">>, Dict(<< <<k, Str(<<"V">>)>> >>)>> >>) : k \in SearchKeys}

\* the entries of a decoded JSON object: no key twice
EntriesOver(keys, values, n) ==
    UNION { {e \in [1..k -> keys \X values] :
                \A i, j \in 1..k : e[i][1] = e[j][1] => i = j} : k \in 0..n }

SearchPayloads ==
    {Dict(e) : e \in EntriesOver(SearchKeys, SearchValues, MaxEntries)}
    \cup {List(items) : items \in BoundedSeq(SearchValues, MaxEntries)}
    \cup SearchScalars

FindStringValue ==
    /\ pc = "search"
    /\ found' = _find_string_value(payload, StatusKeys)
    /\ pc' = "found"
    /\ UNCHANGED <<route, config, submission, ctx, calls, payload, pod_view>>

ExtractTrackingNumber ==
    /\ pc = "search"
    /\ found' = _extract_tracking_number(payload)
    /\ pc' = "extracted"
    /\ UNCHANGED <<route, config, submission, ctx, calls, payload, pod_view>>

InitSearch ==
    /\ pc = "search"
    /\ route = "none"
    /\ config = [api_key |-> TRUE, base_url |-> TRUE]
    /\ submission = NoSubmission
    /\ ctx = InitialContext(None, None)
    /\ calls = <<>>
    /\ payload \in SearchPayloads
    /\ found = None
    /\ pod_view = NoPod

NextSearch == FindStringValue \/ ExtractTrackingNumber

SpecSearch == InitSearch /\ [][NextSearch]_vars

(***************************************************************************)
(* The proof-of-delivery builder on its own.                               *)
(***************************************************************************)
\* most entries of a proof-of-delivery mapping
MaxProofEntries == 2

RECURSIVE Repeat(_, _)
Repeat(c, n) == IF n = 0 THEN <<>> ELSE <<c>> \o Repeat(c, n - 1)

ProofKeys ==
    { <<"s","i","g","n","a","t","u","r","e","U","r","l">>, <<"S","i","g","n","a","t","u","r","e">>, <<"s","t","a","t","u","s">>, <<"a","_","b">>, <<"a","-","b">> }

ProofScalars ==
    { Str(<<"H","T","T","P",":","/","/","x">>),
      Str(<<"d","a","t","a",":","x">>),
      Str(Repeat("A", MinBase64Length + 1)),
      Str(Repeat("A", MinBase64Length)),
      Str(<<"t","x","t">>),
      Num(<<"7">>),
      Bool(<<"T","r","u","e">>) }

\* a mapping with the proof nested under "pod", or with a "pod" that is no mapping
NestedProofPayloads ==
    {Dict(<< <<PodKey, Dict(e)>> >> \o rest) :
        e \in EntriesOver(ProofKeys, ProofScalars, 1),
        rest \in {<< >>, << <<<<"s","t","a","t","u","s">>, Str(<<"t","x","t">>)>> >>}}
    \cup {Dict(<< <<PodKey, Str(<<"t","x","t">>)>> >> \o e) :
             e \in EntriesOver(ProofKeys, ProofScalars, 1)}

ProofBuilderPayloads ==
    {Dict(e) : e \in EntriesOver(ProofKeys, ProofScalars, MaxProofEntries)}
    \cup NestedProofPayloads
    \cup {List(<< >>), Str(<<"t","x","t">>), Null}

BuildProofOfDelivery ==
    /\ pc = "build"
    /\ pod_view' = _build_proof_of_delivery_context(payload)
    /\ pc' = "built"
    /\ UNCHANGED <<route, config, submission, ctx, calls, payload, found>>

InitProof ==
    /\ pc = "build"
    /\ route = "none"
    /\ config = [api_key |-> TRUE, base_url |-> TRUE]
    /\ submission = NoSubmission
    /\ ctx = InitialContext(None, None)
    /\ calls = <<>>
    /\ payload \in ProofBuilderPayloads
    /\ found = None
    /\ pod_view = NoPod

NextProof == BuildProofOfDelivery

SpecProof == InitProof /\ [][NextProof]_vars

(***************************************************************************)
(* Properties of the request orchestration (specification Spec).           *)
(***************************************************************************)
TypedNumber == Trimmed(submission.raw_tracking_number)
TypedReference == Trimmed(submission.raw_order_reference)

CallsOf(fn) == SelectSeq(calls, LAMBDA c : c.fn = fn)

OnlyAlphanumeric(s) ==
    \A i \in 1..Len(s) :
        s[i] \in Range(UpperLetters) \cup Range(LowerLetters) \cup Digits

\* the request took the explicit-tracking-number path
ExplicitNumberPath == submission.submission_attempted /\ TypedNumber # <<>>

\* the request took the reference-only path
ReferenceOnlyPath ==
    submission.submission_attempted /\ TypedNumber = <<>> /\ TypedReference # <<>>

\* C1: a submission with a non-empty trimmed tracking number never calls
\* resolve_reference; it calls fetch_proof_of_delivery exactly once when the
\* trimmed order reference is non-empty and not at all otherwise, whether or
\* not the tracking number is well formed; and the returned proof_of_delivery
\* and proof_of_delivery_error are the pair that call returned.
C1_ExplicitNumberNeverResolves ==
    ExplicitNumberPath =>
        /\ pc # "resolve"
        /\ CallsOf("resolve_reference") = <<>>
        /\ Len(calls) <= 1
        /\ pc = "pod" => calls = <<>> /\ TypedReference # <<>>
        /\ pc = "done" =>
              IF TypedReference # <<>>
              THEN /\ Len(CallsOf("fetch_proof_of_delivery")) = 1
                   /\ ctx.proof_of_delivery = calls[1].result.pod
                   /\ ctx.proof_of_delivery_error = calls[1].result.error
              ELSE /\ calls = <<>>
                   /\ ctx.proof_of_delivery = NoPod
                   /\ ctx.proof_of_delivery_error = None

\* a malformed tracking number typed with a reference: the proof is attached
C1_Witness ==
    /\ pc = "done"
    /\ ExplicitNumberPath
    /\ ~OnlyAlphanumeric(TypedNumber)
    /\ TypedReference # <<>>
    /\ Len(calls) = 1
    /\ ~ctx.proof_of_delivery.isNone
    /\ ctx.error_message = MsgTrackingFormat

\* C2: on the reference-only path the request makes exactly one
\* resolve_reference call and then exactly one fetch_proof_of_delivery call,
\* one after the other, whatever the resolve call returned, and repeats
\* neither.
C2_ResolveThenProofOnce ==
    ReferenceOnlyPath =>
        /\ pc \in {"resolve", "pod", "done"}
        /\ pc = "resolve" => calls = <<>>
        /\ pc = "pod" =>
              Len(calls) = 1 /\ calls[1].fn = "resolve_reference"
        /\ pc = "done" =>
              /\ Len(calls) = 2
              /\ calls[1].fn = "resolve_reference"
              /\ calls[2].fn = "fetch_proof_of_delivery"

\* the resolution failed and the proof of delivery was fetched all the same
C2_Witness ==
    /\ pc = "done"
    /\ ReferenceOnlyPath
    /\ Len(calls) = 2
    /\ calls[1].result.error # None
    /\ calls[2].fn = "fetch_proof_of_delivery"

\* C3: in every returned view-model, a tracking_url comes with a non-empty
\* tracking_number made of A-Z, a-z, 0-9 only, and is the fixed prefix
\* followed by that tracking_number.
C3_TrackingUrlWellFormed ==
    (pc = "done" /\ ctx.tracking_url # None) =>
        /\ ctx.tracking_number # <<>>
        /\ OnlyAlphanumeric(ctx.tracking_number)
        /\ ctx.tracking_url = TRACKING_BASE_URL \o ctx.tracking_number

\* a tracking number resolved from the reference, with surrounding blanks in
\* the payload, made the URL
C3_Witness ==
    /\ pc = "done"
    /\ ReferenceOnlyPath
    /\ ctx.tracking_url = TRACKING_BASE_URL \o <<"A","B","1">>
    /\ ctx.tracking_number = ctx.resolved_tracking_number

\* C4: on the reference-only path, once resolve_reference has returned: a
\* returned tracking number that is not alphanumeric gives the "retrieved
\* tracking number appears invalid" message, no resolved_tracking_number, no
\* tracking_url and an empty tracking_number; a returned error is the
\* reference_error_message as it is, with no tracking_url.
C4_ResolveFailureReported ==
    (ReferenceOnlyPath /\ pc \in {"pod", "done"}) =>
        LET returned == calls[1].result
        IN /\ (returned.value # None /\ ~OnlyAlphanumeric(returned.value)) =>
                  /\ ctx.reference_error_message = MsgRetrievedInvalid
                  /\ ctx.resolved_tracking_number = None
                  /\ ctx.tracking_url = None
                  /\ ctx.tracking_number = <<>>
           /\ returned.error # None =>
                  /\ ctx.reference_error_message = returned.error
                  /\ ctx.tracking_url = None

\* the gateway resolved the reference to "bad!number"
C4_Witness ==
    /\ pc = "done"
    /\ ReferenceOnlyPath
    /\ calls[1].result.value = <<"b","a","d","!","n","u","m","b","e","r">>
    /\ ctx.reference_error_message = MsgRetrievedInvalid

AllAbsent(c) ==
    /\ c.tracking_url = None
    /\ c.error_message = None
    /\ c.reference_error_message = None
    /\ c.resolved_tracking_number = None
    /\ c.proof_of_delivery = NoPod
    /\ c.proof_of_delivery_error = None

\* C5: a gateway call is made, or awaited, only when submission_attempted is
\* true and the trimmed order reference is non-empty; without
\* submission_attempted the handler goes straight to its return with every
\* result field absent, whatever the two strings are; and GET
\* /<tracking_number> makes no gateway call.
C5_NoCallWithoutReference ==
    /\ (calls # <<>> \/ pc \in {"resolve", "pod"}) =>
           submission.submission_attempted /\ TypedReference # <<>>
    /\ (pc = "done" /\ ~submission.submission_attempted) =>
           calls = <<>> /\ AllAbsent(ctx)
    /\ pc = "idle" =>
           \A t \in TrackingFormValues, r \in ReferenceFormValues :
               LET begun == BeginContext(t, r, FALSE)
               IN begun.pc = "done" /\ AllAbsent(begun.ctx)
    /\ route = "GET /<tracking_number>" => pc = "done" /\ calls = <<>>

\* the path shortcut returned a tracking URL without any gateway call
C5_Witness ==
    /\ route = "GET /<tracking_number>"
    /\ pc = "done"
    /\ ctx.tracking_url # None
    /\ calls = <<>>

Configured == config.api_key /\ config.base_url

RECURSIVE PreOrderEntries(_)
RECURSIVE PreOrderFrom(_, _)
PreOrderFrom(p, i) ==
    IF i > Len(p.v) THEN <<>>
    ELSE (IF p.t = "dict"
          THEN <<p.v[i]>> \o PreOrderEntries(p.v[i][2])
          ELSE PreOrderEntries(p.v[i]))
         \o PreOrderFrom(p, i + 1)

PreOrderEntries(p) ==
    IF p.t \in {"dict", "list"} THEN PreOrderFrom(p, 1) ELSE <<>>

NonBlankString(value) ==
    value.t = "str" /\ \E i \in 1..Len(value.v) : value.v[i] \notin Whitespace

StatusMatch(entry) ==
    _normalise_key(entry[1]) \in StatusKeys /\ NonBlankString(entry[2])

ExactMatch(entry) ==
    entry[1] \in TRACKING_NUMBER_KEYS /\ NonBlankString(entry[2])

Matches(entry, exact) == IF exact THEN ExactMatch(entry) ELSE StatusMatch(entry)

\* what the first matching entry of the walk holds, trimmed; None without one
FirstInPreOrder(p, exact) ==
    LET matches == SelectSeq(PreOrderEntries(p), LAMBDA e : Matches(e, exact))
    IN IF matches = <<>> THEN None ELSE Strip(matches[1][2].v)

\* the top-level entries of a mapping that match directly
DirectMatches(p, exact) ==
    IF p.t = "dict" THEN SelectSeq(p.v, LAMBDA e : Matches(e, exact)) ELSE <<>>

\* C8 as claimed: a matching key with a non-empty trimmed string at the top
\* level of a mapping wins over every matching key nested under a sibling
\* entry.
C8_ShallowerAlwaysWins ==
    /\ (pc = "found" /\ DirectMatches(payload, FALSE) # <<>>) =>
           found = Strip(DirectMatches(payload, FALSE)[1][2].v)
    /\ (pc = "extracted" /\ DirectMatches(payload, TRUE) # <<>>) =>
           found = Strip(DirectMatches(payload, TRUE)[1][2].v)

\* C8, amended: both searchers return the trimmed value of the first matching
\* entry of the pre-order, left-to-right walk: an earlier entry of a mapping,
\* with everything nested under it, comes before a later entry, so a match
\* nested under an earlier sibling wins over a shallower match in a later
\* entry; and they return none exactly when no entry of the tree matches.
C8_FirstInPreOrder ==
    /\ pc = "found" => found = FirstInPreOrder(payload, FALSE)
    /\ pc = "extracted" => found = FirstInPreOrder(payload, TRUE)
    /\ pc \in {"found", "extracted"} =>
          (found = None <=>
              ~\E i \in 1..Len(PreOrderEntries(payload)) :
                  Matches(PreOrderEntries(payload)[i], pc = "extracted"))

\* a match nested under the first entry won over a direct match in the second
C8_Witness ==
    /\ pc = "found"
    /\ payload.t = "dict"
    /\ Len(payload.v) = 2
    /\ ~StatusMatch(payload.v[1])
    /\ StatusMatch(payload.v[2])
    /\ found = <<"Z">>
    /\ found # Strip(payload.v[2][2].v)

(***************************************************************************)
(* Properties of the proof-of-delivery builder (specification SpecProof).  *)
(***************************************************************************)
\* C9: the labels of the detail list are pairwise distinct: no catch-all
\* entry repeats the label of a leading "Signed by", "Signed at" or "Status"
\* entry, and no two catch-all entries share a label.
C9_DetailLabelsDistinct ==
    (pc = "built" /\ ~pod_view.isNone) =>
        \A i, j \in 1..Len(pod_view.details) :
            pod_view.details[i][1] = pod_view.details[j][1] => i = j

\* the reference found under the signature-reference keys
FoundReference == _find_string_value(PodBody(payload), SignatureUrlKeys)

\* the candidate found under the second key set
FoundCandidate == _find_string_value(PodBody(payload), SignatureImageKeys)

LooksLikeUrl(s) ==
    /\ s # None
    /\ \/ StartsWith(Lower(s), HttpScheme)
       \/ StartsWith(Lower(s), HttpsScheme)

\* signature_image as the second key set gives it
ImageFromCandidate ==
    IF Truthy(FoundCandidate)
    THEN IF _coerce_data_uri(FoundCandidate) # None
         THEN _coerce_data_uri(FoundCandidate)
         ELSE FoundCandidate
    ELSE None

\* nothing would be listed: no signer, time or status found, and no top-level
\* scalar left for the catch-all
NoDetailExpected ==
    /\ ~Truthy(_find_string_value(PodBody(payload), SignedByKeys))
    /\ ~Truthy(_find_string_value(PodBody(payload), SignedAtKeys))
    /\ ~Truthy(_find_string_value(PodBody(payload), StatusKeys))
    /\ \A i \in 1..Len(PodBody(payload).v) :
           \/ _normalise_key(PodBody(payload).v[i][1]) \in SkippedDetailKeys
           \/ PodBody(payload).v[i][2].t \notin {"str", "num", "bool"}

\* C10: signature_url is present only if the found reference starts with
\* http:// or https:// in any case; signature_url and signature_image are
\* never both present; a found reference that is no URL leaves signature_url
\* absent and is the signature_image when the coercer accepts it, and
\* otherwise the image is the second key set's candidate, coerced, or raw when
\* the coercer rejects it; the builder returns none exactly when
\* signature_url, signature_image and the detail list are all empty.
C10_SignatureUrlOrImage ==
    pc = "built" =>
        IF payload.t # "dict" THEN pod_view.isNone
        ELSE /\ pod_view.signature_url # None =>
                    LooksLikeUrl(FoundReference)
                    /\ pod_view.signature_url = FoundReference
             /\ ~(pod_view.signature_url # None /\ pod_view.signature_image # None)
             /\ (Truthy(FoundReference) /\ ~LooksLikeUrl(FoundReference)) =>
                    /\ pod_view.signature_url = None
                    /\ pod_view.signature_image =
                          IF _coerce_data_uri(FoundReference) # None
                          THEN _coerce_data_uri(FoundReference)
                          ELSE ImageFromCandidate
             /\ ~Truthy(FoundReference) =>
                    pod_view.signature_image = ImageFromCandidate
             /\ pod_view.isNone <=>
                    /\ ~LooksLikeUrl(FoundReference)
                    /\ (Truthy(FoundReference) => _coerce_data_uri(FoundReference) = None)
                    /\ ImageFromCandidate = None
                    /\ NoDetailExpected
             /\ ~pod_view.isNone =>
                    \/ pod_view.signature_url # None
                    \/ pod_view.signature_image # None
                    \/ pod_view.details # <<>>

\* a reference that is neither a URL nor base64, and a candidate the coercer
\* rejects: the raw candidate is the image
C10_Witness ==
    /\ pc = "built"
    /\ ~pod_view.isNone
    /\ Truthy(FoundReference)
    /\ ~LooksLikeUrl(FoundReference)
    /\ _coerce_data_uri(FoundReference) = None
    /\ Truthy(FoundCandidate)
    /\ _coerce_data_uri(FoundCandidate) = None
    /\ pod_view.signature_url = None
    /\ pod_view.signature_image = FoundCandidate

====
